---- MODULE Spec2Model ----
(***************************************************************************)
(* A model of clarify.py: the resize / tile / enhance / collate pipeline.  *)
(*                                                                         *)
(* Text (paths, file names) is a sequence of one-character strings, so     *)
(* that formatting, os.path and the regular expression are computed.       *)
(* Sizes are integers; the float arithmetic of resize_to_nearest_1024 is   *)
(* taken as exact rational arithmetic (cross-multiplied); on every size    *)
(* the specifications below draw, the floats give the same target size.    *)
(* A raw progress value p of the remote job is the integer                 *)
(* ProgressResolution * p: with a resolution of 256 the values are dyadic, *)
(* so p * 100 is exact in floating point too.                              *)
(***************************************************************************)
EXTENDS Integers, Sequences, FiniteSets, TLC

VARIABLES
    pc,             \* position of the run (driver / function under test)
    source,         \* the source image file: [path, ok, w, h]
    resized,        \* result of resize_to_nearest_1024: [w, h, adjusted]
    ret,            \* what split_image returned: <<>> or <<tile_paths, rows, cols>>
    tile_paths,     \* driver local (line 228)
    rows,           \* driver local (line 228)
    cols,           \* driver local (line 228)
    connected,      \* process_tiles: Client(...) succeeded
    polls,          \* process_tiles: iterations of the polling loop so far
    last_progress,  \* process_tiles local (line 117)
    log,            \* the 'Processing progress' lines, oldest first
    result,         \* the 3-tuple job.result() returned, or NoResult
    report,         \* content of the status report file written in this run
    folderFailed,   \* the /open_output_folder call raised
    enhanced_paths, \* driver local (line 235)
    calls,          \* functions / remote calls entered during this run
    canvas          \* final image saved by collate_tiles, or NoCanvas

vars == <<pc, source, resized, ret, tile_paths, rows, cols, connected, polls,
          last_progress, log, result, report, folderFailed, enhanced_paths,
          calls, canvas>>

(***************************************************************************)
(* Bounds and program constants                                            *)
(***************************************************************************)
\* sizes run over multiples of the tile edge up to MaxUnits, and their neighbours
MaxUnits == 2
\* polls of the job before the model lets it complete or fail
MaxPolls == 3
\* the tile edge of split_image / resize_to_nearest_1024
TileEdge == 1024
\* collate_tiles' fallback tile size
FallbackTileSize == 4096
\* upscale_factor of processing_params
UpscaleFactor == 4
\* last_progress before the first poll, as a progress value (-1)
InitialProgress == -1
\* raw progress values are multiples of 1 / ProgressResolution
ProgressResolution == 256

(***************************************************************************)
(* Text                                                                    *)
(***************************************************************************)
DigitChars == <<"0", "1", "2", "3", "4", "5", "6", "7", "8", "9">>

IsDigit(ch) == \E i \in 1..Len(DigitChars) : DigitChars[i] = ch

DigitVal(ch) == (CHOOSE i \in 1..Len(DigitChars) : DigitChars[i] = ch) - 1

RECURSIVE str(_)
\* str(n) of a natural number, as the f-string formats row + 1 and col + 1
str(n) == IF n < 10 THEN <<DigitChars[n + 1]>>
          ELSE str(n \div 10) \o <<DigitChars[(n % 10) + 1]>>

RECURSIVE int(_)
\* int(digits) of a non-empty run of decimal digits
int(ds) == IF Len(ds) = 1 THEN DigitVal(ds[1])
           ELSE 10 * int(SubSeq(ds, 1, Len(ds) - 1)) + DigitVal(ds[Len(ds)])

\* the positions of ch in s
Positions(s, ch) == {i \in 1..Len(s) : s[i] = ch}

Max(S) == CHOOSE x \in S : \A y \in S : y <= x
Min(S) == CHOOSE x \in S : \A y \in S : x <= y

\* os.path.basename: what follows the last separator
basename(p) ==
    IF Positions(p, "/") = {} THEN p
    ELSE SubSeq(p, Max(Positions(p, "/")) + 1, Len(p))

\* os.path.splitext(name)[0]: the name up to its last dot, unless that dot
\* is one of the leading dots
splitext_root(name) ==
    LET dots == Positions(name, ".")
    IN  IF dots = {} THEN name
        ELSE LET d == Max(dots)
             IN  IF \E i \in 1..(d - 1) : name[i] # "."
                 THEN SubSeq(name, 1, d - 1)
                 ELSE name

\* os.path.join(dir, name)
path_join(dir, name) ==
    IF dir = <<>> THEN name
    ELSE IF dir[Len(dir)] = "/" THEN dir \o name
    ELSE dir \o <<"/">> \o name

\* the end of the maximal run of digits of s that starts at i (i - 1 if none)
RECURSIVE DigitRunEnd(_, _)
DigitRunEnd(s, i) ==
    IF i <= Len(s) /\ IsDigit(s[i]) THEN DigitRunEnd(s, i + 1) ELSE i - 1

NoMatch == <<>>

\* pattern.match at position i of R(\d+)C(\d+): <<group 1, group 2>> or NoMatch.
\* \d+ is greedy; giving digits back never helps, since C is no digit.
MatchAt(s, i) ==
    IF ~(i <= Len(s) /\ s[i] = "R") THEN NoMatch
    ELSE LET e1 == DigitRunEnd(s, i + 1)
         IN  IF e1 < i + 1 \/ e1 + 1 > Len(s) \/ s[e1 + 1] # "C" THEN NoMatch
             ELSE LET e2 == DigitRunEnd(s, e1 + 2)
                  IN  IF e2 < e1 + 2 THEN NoMatch
                      ELSE <<SubSeq(s, i + 1, e1), SubSeq(s, e1 + 2, e2)>>

\* pattern.search(s): the match at the leftmost position that has one
pattern_search(s) ==
    LET hits == {i \in 1..Len(s) : MatchAt(s, i) # NoMatch}
    IN  IF hits = {} THEN NoMatch ELSE MatchAt(s, Min(hits))

(***************************************************************************)
(* resize_to_nearest_1024                                                  *)
(***************************************************************************)
\* a mutant of ceil_div: rounds down
floor_div(a, b) == a \div b

\* math.ceil(a / b) for positive integers a, b
ceil_div(a, b) == (a + b - 1) \div b

Abs(x) == IF x < 0 THEN 0 - x ELSE x

\* abs(new_width / new_height - original_width / original_height) > 0.01,
\* cross-multiplied; nw and nh are multiples of the tile edge, which cancels
out_of_tolerance(nw, nh, w, h) ==
    LET nwu == nw \div TileEdge
        nhu == nh \div TileEdge
    IN  Abs(nwu * h - w * nhu) * 100 > nhu * h

\* the target size, and whether the width was recomputed from the height
resize_to_nearest_1024(w, h) ==
    LET new_width  == ceil_div(w, TileEdge) * TileEdge
        \* new_width / aspect_ratio = new_width * h / w
        new_height == ceil_div(new_width * h, w * TileEdge) * TileEdge
    IN  IF out_of_tolerance(new_width, new_height, w, h)
        THEN [w |-> ceil_div(new_height * w, h * TileEdge) * TileEdge,
              h |-> new_height, adjusted |-> TRUE]
        ELSE [w |-> new_width, h |-> new_height, adjusted |-> FALSE]

(***************************************************************************)
(* Images and files                                                        *)
(***************************************************************************)
\* The content of an image is named by the box of the resized source image
\* it was cropped from; w, h is the size it has now.
Blank == [box |-> <<0, 0, 0, 0>>, w |-> 0, h |-> 0]

NoCanvas == [w |-> 0, h |-> 0, blocks |-> [o \in {} |-> Blank]]

\* resized_img.crop((left, top, right, bottom))
crop(left, top, right, bottom) ==
    [box |-> <<left, top, right, bottom>>, w |-> right - left, h |-> bottom - top]

\* tile.resize((tile_size, tile_size), LANCZOS)
resize_tile(img, tile_size) == [box |-> img.box, w |-> tile_size, h |-> tile_size]

\* a file on disk: its path, whether Image.open can decode it, and its image
ImageFile(path, readable, img) == [path |-> path, readable |-> readable, img |-> img]

JpgExt == <<".", "j", "p", "g">>

(***************************************************************************)
(* split_image                                                             *)
(***************************************************************************)
\* a mutant of one_based: the label is the 0-based loop index
zero_based(i) == i

\* row + 1, col + 1 of the file name
one_based(i) == i + 1

\* f"{base_name}R{row + 1}C{col + 1}.jpg"
output_filename(base_name, row, col) ==
    base_name \o <<"R">> \o str(one_based(row)) \o <<"C">> \o str(one_based(col)) \o JpgExt

\* the body of the inner loop: the tile saved for (row, col)
save_tile(base_name, output_dir, row, col) ==
    LET left   == col * TileEdge
        top    == row * TileEdge
        right  == left + TileEdge
        bottom == top + TileEdge
    IN  ImageFile(path_join(output_dir, output_filename(base_name, row, col)),
                  TRUE, crop(left, top, right, bottom))

RECURSIVE col_loop(_, _, _, _, _)
\* for col in range(cols), from col on
col_loop(base_name, output_dir, row, col, ncols) ==
    IF col >= ncols THEN <<>>
    ELSE <<save_tile(base_name, output_dir, row, col)>>
         \o col_loop(base_name, output_dir, row, col + 1, ncols)

RECURSIVE row_loop(_, _, _, _, _)
\* for row in range(rows), from row on
row_loop(base_name, output_dir, row, nrows, ncols) ==
    IF row >= nrows THEN <<>>
    ELSE col_loop(base_name, output_dir, row, 0, ncols)
         \o row_loop(base_name, output_dir, row + 1, nrows, ncols)

\* split_image(image_path, output_dir): [] when the image cannot be opened,
\* else (tile_paths, rows, cols)
split_image(src, output_dir) ==
    IF ~src.ok THEN <<>>
    ELSE LET base_name == splitext_root(basename(src.path))
             size      == resize_to_nearest_1024(src.w, src.h)
             nrows     == size.h \div TileEdge
             ncols     == size.w \div TileEdge
         IN  <<row_loop(base_name, output_dir, 0, nrows, ncols), nrows, ncols>>

(***************************************************************************)
(* collate_tiles                                                           *)
(***************************************************************************)
\* tile size from the first enhanced tile, or the fallback
detect_tile_size(enhanced) ==
    IF enhanced[1].readable THEN enhanced[1].img.w ELSE FallbackTileSize

\* Image.new('RGB', (full_width, full_height)): blank blocks of tile_size
new_canvas(nrows, ncols, tile_size) ==
    [w |-> ncols * tile_size, h |-> nrows * tile_size,
     blocks |-> [o \in {<<c * tile_size, r * tile_size>> :
                          c \in 0..(ncols - 1), r \in 0..(nrows - 1)} |-> Blank]]

\* final_image.paste(tile, (left, top)): a block outside the canvas is clipped
paste(cv, img, left, top) ==
    IF <<left, top>> \in DOMAIN cv.blocks
    THEN [cv EXCEPT !.blocks[<<left, top>>] = img]
    ELSE cv

\* the body of the loop over enhanced_paths
paste_tile(cv, file, tile_size) ==
    LET match == pattern_search(basename(file.path))
    IN  IF match = NoMatch THEN cv                 \* warning, continue
        ELSE LET row == int(match[1]) - 1
                 col == int(match[2]) - 1
             IN  IF ~file.readable THEN cv         \* Image.open raised: logged
                 ELSE LET tile == IF file.img.w # tile_size \/ file.img.h # tile_size
                                  THEN resize_tile(file.img, tile_size)
                                  ELSE file.img
                          left == col * tile_size
                          top  == row * tile_size
                      IN  paste(cv, tile, left, top)

RECURSIVE paste_loop(_, _, _, _)
paste_loop(cv, enhanced, i, tile_size) ==
    IF i > Len(enhanced) THEN cv
    ELSE paste_loop(paste_tile(cv, enhanced[i], tile_size), enhanced, i + 1, tile_size)

\* collate_tiles(enhanced_paths, rows, cols, ...): the image it saves
\* (NoCanvas when it returns at once)
collate_tiles(enhanced, nrows, ncols) ==
    IF enhanced = <<>> THEN NoCanvas
    ELSE LET tile_size == detect_tile_size(enhanced)
         IN  paste_loop(new_canvas(nrows, ncols, tile_size), enhanced, 1, tile_size)

(***************************************************************************)
(* process_tiles: the remote job                                           *)
(***************************************************************************)
NoReport == [kind |-> "none", images |-> <<>>]

NoResult == [status |-> "none", recent_enhancements |-> <<>>]

Paths(files) == [i \in 1..Len(files) |-> files[i].path]

\* the report of lines 140-147: the status and one line per enhancement
status_report(res) ==
    [kind |-> "status", images |-> Paths(res.recent_enhancements)]

\* a mutant of error_report: the handler leaves the report as it is
report_untouched(old) == old

\* the report of lines 161-162, which replaces what the file held
error_report(old) == [kind |-> "error", images |-> <<>>]

ServiceDir == <<"o", "u", "t">>

\* What job.result() may hold for the submitted tiles: the tiles as they
\* are, each tile upscaled under the same file name, upscaled files that
\* cannot be decoded, all but the first tile, or no enhancement at all.
ServiceResults(tiles) ==
    LET Upscaled(readable) ==
            [i \in 1..Len(tiles) |->
                ImageFile(path_join(ServiceDir, basename(tiles[i].path)), readable,
                          resize_tile(tiles[i].img, UpscaleFactor * tiles[i].img.w))]
    IN  {[status |-> "done", recent_enhancements |-> e] :
            e \in {tiles, Upscaled(TRUE), Upscaled(FALSE), Tail(tiles), <<>>}}

\* raw progress values, as multiples of 1 / ProgressResolution
ProgressValues ==
    {InitialProgress * ProgressResolution, -1, 0, 1, 2, ProgressResolution \div 2,
     ProgressResolution, 2 * ProgressResolution}

\* What job.status() may hold: no progress_data, or a first progress unit
\* of one of the shapes the loop tells apart, with a number or with None.
ProgressSignals ==
    {[shape |-> s, numeric |-> FALSE, value |-> 0] :
        s \in {"absent", "progress", "value", "dict", "dict_empty", "unknown"}}
    \cup {[shape |-> s, numeric |-> TRUE, value |-> v] :
            s \in {"progress", "value", "dict"}, v \in ProgressValues}

\* lines 121-130: the progress taken from the first progress unit
extract_progress(sig) ==
    CASE sig.shape \in {"progress", "value", "dict"} ->
            [numeric |-> sig.numeric, value |-> sig.value]
      [] OTHER -> [numeric |-> TRUE, value |-> 0]   \* .get('value', 0), or unknown

\* int(progress * 100): truncation towards zero
int_percent(raw) ==
    IF raw >= 0 THEN (raw * 100) \div ProgressResolution
    ELSE 0 - (((0 - raw) * 100) \div ProgressResolution)

\* min(100, max(0, int(progress * 100)))
percentage(raw) ==
    LET p == int_percent(raw)
    IN  IF p < 0 THEN 0 ELSE IF p > 100 THEN 100 ELSE p

\* a mutant of progress_changed: every poll logs
always_changed(progress, last) == TRUE

\* progress != last_progress
progress_changed(progress, last) == progress # last

(***************************************************************************)
(* Inputs                                                                  *)
(***************************************************************************)
OutputDir == <<"w">>

NoSize == [w |-> 0, h |-> 0, adjusted |-> FALSE]

\* image sizes around the multiples of the tile edge
Dims == UNION {{k * TileEdge - 224, k * TileEdge, k * TileEdge + 1} : k \in 1..MaxUnits}

\* sizes below the tile edge, for the resize alone
SmallDims == {1, 100, 150, 600, 800}

\* source files: plain names, names that hold text of the form R<d>C<d>,
\* a name without extension, a name that ends in a digit
SourcePaths ==
    { <<"s", "/", "a", ".", "j", "p", "g">>,
      <<"s", "/", "i", "m", "g", "7", ".", "p", "n", "g">>,
      <<"R", "1", "C">>,
      <<"s", "/", "R", "1", "C", "1", ".", "j", "p", "g">>,
      <<"a", "R", "2", "C", "1", "b", ".", "j", "p", "g">>,
      <<"s", "/", "x", ".", "R", "1", "C", "2", ".", "j", "p", "g">> }

PlainPath == <<"s", "/", "a", ".", "j", "p", "g">>

\* the sources of the pipeline runs: a 1 x 1 and a 2 x 2 grid, decodable or not
DriverSources ==
    [path : {PlainPath}, ok : BOOLEAN, w : {TileEdge, TileEdge + 1}, h : {TileEdge}]

Idle ==
    /\ resized = NoSize
    /\ ret = <<>>
    /\ tile_paths = <<>>
    /\ rows = 0
    /\ cols = 0
    /\ connected = FALSE
    /\ polls = 0
    /\ last_progress = InitialProgress * ProgressResolution
    /\ log = <<>>
    /\ result = NoResult
    /\ report = NoReport
    /\ folderFailed = FALSE
    /\ enhanced_paths = <<>>
    /\ calls = {}
    /\ canvas = NoCanvas

job_vars == <<connected, polls, last_progress, log, result, report, folderFailed,
              enhanced_paths>>

driver_locals == <<tile_paths, rows, cols>>

(***************************************************************************)
(* splitandenhance                                                         *)
(***************************************************************************)
Init ==
    /\ pc = "start"
    /\ source \in DriverSources
    /\ Idle

\* line 228: tile_paths, rows, cols = split_image(source_image, folder), and
\* the check of lines 230-232. Unpacking the empty list raises ValueError,
\* which nothing catches.
DriverSplit ==
    /\ pc = "start"
    /\ LET r == split_image(source, OutputDir)
       IN  /\ ret' = r
           /\ resized' = IF source.ok THEN resize_to_nearest_1024(source.w, source.h)
                         ELSE NoSize
           /\ IF Len(r) # 3
              THEN /\ pc' = "raised"
                   /\ UNCHANGED driver_locals
              ELSE /\ tile_paths' = r[1]
                   /\ rows' = r[2]
                   /\ cols' = r[3]
                   /\ pc' = IF r[1] = <<>> THEN "returned" ELSE "connect"
    /\ calls' = calls \cup {"split_image"}
    /\ UNCHANGED <<source, job_vars, canvas>>

\* the except clause of lines 159-163
Except ==
    /\ report' = error_report(report)
    /\ enhanced_paths' = <<>>
    /\ pc' = "after_process"

\* lines 82-91: Client(...), and the check for an empty tile list
Connect ==
    /\ pc = "connect"
    /\ calls' = calls \cup {"process_tiles"}
    /\ \E ok \in BOOLEAN :
        /\ connected' = ok
        /\ IF ok /\ tile_paths # <<>>
           THEN /\ pc' = "submit"
                /\ UNCHANGED enhanced_paths
           ELSE /\ pc' = "after_process"      \* return []
                /\ enhanced_paths' = <<>>
    /\ UNCHANGED <<source, resized, ret, driver_locals, polls, last_progress, log,
                   result, report, folderFailed, canvas>>

\* lines 113-117: client.submit(...), which may raise
Submit ==
    /\ pc = "submit"
    /\ calls' = calls \cup {"submit"}
    /\ \E ok \in BOOLEAN :
        IF ok
        THEN /\ last_progress' = InitialProgress * ProgressResolution
             /\ pc' = "poll"
             /\ UNCHANGED <<report, enhanced_paths>>
        ELSE /\ Except
             /\ UNCHANGED last_progress
    /\ UNCHANGED <<source, resized, ret, driver_locals, connected, polls, log, result,
                   folderFailed, canvas>>

\* lines 118-135: one iteration of the polling loop (job.done() was false)
Poll ==
    /\ pc = "poll"
    /\ polls < MaxPolls
    /\ polls' = polls + 1
    /\ \E sig \in ProgressSignals :
        LET progress == extract_progress(sig)
            logged   == /\ sig.shape # "absent"
                        /\ progress.numeric
                        /\ progress_changed(progress.value, last_progress)
        IN  /\ log' = IF logged
                      THEN Append(log, [pct |-> percentage(progress.value),
                                        raw |-> progress.value])
                      ELSE log
            /\ last_progress' = IF logged THEN progress.value ELSE last_progress
    /\ UNCHANGED <<pc, source, resized, ret, driver_locals, connected, result, report,
                   folderFailed, enhanced_paths, calls, canvas>>

\* job.done() or job.status() raises inside the loop
PollRaises ==
    /\ pc = "poll"
    /\ Except
    /\ UNCHANGED <<source, resized, ret, driver_locals, connected, polls, last_progress,
                   log, result, folderFailed, calls, canvas>>

\* lines 137-151: job.done() is true; job.result() and the status report
Retrieve ==
    /\ pc = "poll"
    /\ \E ok \in BOOLEAN :
        IF ok
        THEN \E res \in ServiceResults(tile_paths) :
                /\ result' = res
                /\ report' = status_report(res)
                /\ pc' = "open_folder"
                /\ UNCHANGED enhanced_paths
        ELSE /\ Except
             /\ UNCHANGED result
    /\ UNCHANGED <<source, resized, ret, driver_locals, connected, polls, last_progress,
                   log, folderFailed, calls, canvas>>

\* lines 153-157: client.predict(api_name="/open_output_folder"), inside the
\* same try, and the return of the enhanced paths
OpenOutputFolder ==
    /\ pc = "open_folder"
    /\ calls' = calls \cup {"open_output_folder"}
    /\ \E ok \in BOOLEAN :
        /\ folderFailed' = ~ok
        /\ IF ok
           THEN /\ enhanced_paths' = result.recent_enhancements
                /\ pc' = "after_process"
                /\ UNCHANGED report
           ELSE Except
    /\ UNCHANGED <<source, resized, ret, driver_locals, connected, polls, last_progress,
                   log, result, canvas>>

\* lines 237-242: collate if process_tiles returned a non-empty list
DriverCollate ==
    /\ pc = "after_process"
    /\ IF enhanced_paths # <<>>
       THEN /\ canvas' = collate_tiles(enhanced_paths, rows, cols)
            /\ calls' = calls \cup {"collate_tiles"}
       ELSE UNCHANGED <<canvas, calls>>
    /\ pc' = "returned"
    /\ UNCHANGED <<source, resized, ret, driver_locals, job_vars>>

Next ==
    \/ DriverSplit
    \/ Connect
    \/ Submit
    \/ Poll
    \/ PollRaises
    \/ Retrieve
    \/ OpenOutputFolder
    \/ DriverCollate

Spec == Init /\ [][Next]_vars

(***************************************************************************)
(* split_image followed by collate_tiles on the tiles it saved             *)
(***************************************************************************)
TilesInit ==
    /\ pc = "split_call"
    /\ source \in [path : SourcePaths, ok : {TRUE}, w : Dims, h : Dims]
    /\ Idle

TilesSplit ==
    /\ pc = "split_call"
    /\ ret' = split_image(source, OutputDir)
    /\ resized' = resize_to_nearest_1024(source.w, source.h)
    /\ pc' = "split_done"
    /\ UNCHANGED <<source, driver_locals, job_vars, calls, canvas>>

TilesCollate ==
    /\ pc = "split_done"
    /\ canvas' = collate_tiles(ret[1], ret[2], ret[3])
    /\ pc' = "collate_done"
    /\ UNCHANGED <<source, resized, ret, driver_locals, job_vars, calls>>

TilesNext == TilesSplit \/ TilesCollate

SpecTiles == TilesInit /\ [][TilesNext]_vars

(***************************************************************************)
(* resize_to_nearest_1024 on its own                                       *)
(***************************************************************************)
ResizeInit ==
    /\ pc = "resize_call"
    /\ source \in [path : {PlainPath}, ok : {TRUE}, w : Dims \cup SmallDims,
                   h : Dims \cup SmallDims]
    /\ Idle

Resize ==
    /\ pc = "resize_call"
    /\ resized' = resize_to_nearest_1024(source.w, source.h)
    /\ pc' = "resize_done"
    /\ UNCHANGED <<source, ret, driver_locals, job_vars, calls, canvas>>

ResizeNext == Resize

SpecResize == ResizeInit /\ [][ResizeNext]_vars

(***************************************************************************)
(* Properties                                                              *)
(***************************************************************************)
Finished == pc \in {"returned", "raised"}

AfterProcess == pc \in {"after_process", "returned"}

\* C1: when the source image cannot be opened, split_image returns an empty
\* result and the run ends by returning normally, with neither
\* process_tiles (no connection, no submit) nor collate_tiles invoked.
C1_UndecodableSourceAbortsCleanly ==
    (~source.ok /\ Finished) =>
        /\ ret = <<>>
        /\ pc = "returned"
        /\ calls \cap {"process_tiles", "submit", "collate_tiles"} = {}

\* C2: once the result was retrieved and written to the status report, a
\* failure of the open-output-folder call is only logged: process_tiles
\* returns the enhanced paths of the result and the report keeps its
\* 'Processing Status' content.
C2_OpenFolderFailureIsNonFatal ==
    (folderFailed /\ AfterProcess) =>
        /\ enhanced_paths = result.recent_enhancements
        /\ report = status_report(result)

EmptyEnhancementRun ==
    /\ pc = "returned"
    /\ tile_paths # <<>>
    /\ enhanced_paths = <<>>

\* C3 as stated: in every run with at least one tile in which process_tiles
\* returns an empty list, whatever the cause, collate_tiles is never invoked
\* and a status report written during this run exists when the driver returns.
C3_EmptyEnhancementLeavesReport ==
    EmptyEnhancementRun =>
        /\ "collate_tiles" \notin calls
        /\ report.kind # "none"

\* C3 as amended: in every such run collate_tiles is never invoked, and a
\* status report written during this run exists exactly when the connection
\* to the service was established (a connection failure writes no report).
C3_EmptyEnhancementLeavesReportIfConnected ==
    EmptyEnhancementRun =>
        /\ "collate_tiles" \notin calls
        /\ connected <=> report.kind # "none"

\* a run that connected, failed later and returned without collating
C3_Witness ==
    /\ EmptyEnhancementRun
    /\ connected
    /\ report.kind = "error"
    /\ polls > 0

\* C9 as stated: every logged percentage is an integer in 0..100 and no two
\* consecutive 'Processing progress' lines carry the same percentage.
C9_NoRepeatedPercentage ==
    /\ \A i \in 1..Len(log) : log[i].pct \in 0..100
    /\ \A i \in 1..(Len(log) - 1) : log[i].pct # log[i + 1].pct

\* C9 as amended: every logged percentage is an integer in 0..100, it is the
\* clamped percentage of the raw progress value reported, and a line is
\* logged only when the raw progress value differs from the one last logged
\* (the first from the initial -1): no two consecutive lines stem from the
\* same raw value, though they may carry the same percentage.
C9_NoRepeatedRawProgress ==
    /\ \A i \in 1..Len(log) :
          /\ log[i].pct \in 0..100
          /\ log[i].pct * ProgressResolution <= Abs(log[i].raw) * 100
             \/ log[i].pct = 100
          /\ log[i].raw < 0 => log[i].pct = 0
    /\ \A i \in 1..(Len(log) - 1) : log[i].raw # log[i + 1].raw
    /\ Len(log) > 0 =>
          /\ log[1].raw # InitialProgress * ProgressResolution
          /\ log[Len(log)].raw = last_progress

\* two consecutive lines with the same percentage from different raw values
C9_Witness ==
    \E i \in 1..(Len(log) - 1) :
        /\ log[i].pct = log[i + 1].pct
        /\ log[i].raw # log[i + 1].raw

SplitDone == pc \in {"split_done", "collate_done"}

\* the box of the i-th tile in row-major order of a grid with ncols columns
RowMajorBox(i, ncols) ==
    LET r == (i - 1) \div ncols
        c == (i - 1) % ncols
    IN  <<c * TileEdge, r * TileEdge, c * TileEdge + TileEdge, r * TileEdge + TileEdge>>

\* the (row, col) label written in a tile's file name after the base name,
\* or <<0, 0>> if the name is not base_name R<digits>C<digits>.jpg
LabelOf(file, base_name) ==
    LET name == basename(file.path)
        n    == Len(name)
        b    == Len(base_name)
        e    == Len(JpgExt)
    IN  IF n < b + e + 4 \/ SubSeq(name, 1, b) # base_name
           \/ SubSeq(name, n - e + 1, n) # JpgExt
        THEN <<0, 0>>
        ELSE LET label == SubSeq(name, b + 1, n - e)
                 m     == MatchAt(label, 1)
             IN  IF m = NoMatch \/ Len(m[1]) + Len(m[2]) + 2 # Len(label)
                 THEN <<0, 0>>
                 ELSE <<int(m[1]), int(m[2])>>

InBox(x, y, box) == box[1] <= x /\ x < box[3] /\ box[2] <= y /\ y < box[4]

\* the pixel coordinates at the block borders of an edge of length n
BorderCoords(n) ==
    {0, n - 1} \cup UNION {{k * TileEdge - 1, k * TileEdge} : k \in 1..((n \div TileEdge) - 1)}

\* C4: for a resized image whose sides are multiples of 1024, split_image
\* produces exactly (W'/1024)*(H'/1024) tiles in row-major order, each the
\* 1024x1024 box at (col*1024, row*1024); the (row+1, col+1) labels of the
\* file names are a bijection onto {1..rows} x {1..cols}, and the boxes
\* partition the resized image without gap or overlap.
C4_TilesPartitionTheGrid ==
    SplitDone =>
        LET tiles  == ret[1]
            nrows  == resized.h \div TileEdge
            ncols  == resized.w \div TileEdge
            base   == splitext_root(basename(source.path))
            labels == {LabelOf(tiles[i], base) : i \in 1..Len(tiles)}
        IN  /\ resized.w % TileEdge = 0 /\ resized.h % TileEdge = 0
            /\ ret[2] = nrows /\ ret[3] = ncols
            /\ Len(tiles) = nrows * ncols
            /\ \A i \in 1..Len(tiles) :
                  /\ tiles[i].img.box = RowMajorBox(i, ncols)
                  /\ tiles[i].img.w = TileEdge /\ tiles[i].img.h = TileEdge
                  /\ LabelOf(tiles[i], base) =
                        <<((i - 1) \div ncols) + 1, ((i - 1) % ncols) + 1>>
            /\ labels = (1..nrows) \X (1..ncols)
            /\ Cardinality(labels) = Len(tiles)
            /\ \A x \in BorderCoords(resized.w), y \in BorderCoords(resized.h) :
                  Cardinality({i \in 1..Len(tiles) : InBox(x, y, tiles[i].img.box)}) = 1

\* a grid with several rows and columns, not square
C4_Witness ==
    /\ pc = "split_done"
    /\ ret[2] >= 2
    /\ ret[3] >= 2
    /\ ret[2] # ret[3]

\* C5: split_image followed by collate_tiles on the tiles it produced
\* yields a canvas of size (cols*1024, rows*1024) whose every block holds the
\* content cropped from the same box of the resized image.
C5_RoundTrip ==
    pc = "collate_done" =>
        /\ canvas.w = ret[3] * TileEdge /\ canvas.h = ret[2] * TileEdge
        /\ canvas.w = resized.w /\ canvas.h = resized.h
        /\ \A r \in 0..(ret[2] - 1), c \in 0..(ret[3] - 1) :
              /\ <<c * TileEdge, r * TileEdge>> \in DOMAIN canvas.blocks
              /\ canvas.blocks[<<c * TileEdge, r * TileEdge>>] =
                    crop(c * TileEdge, r * TileEdge,
                         c * TileEdge + TileEdge, r * TileEdge + TileEdge)

\* C10: for every base name and every grid position (r, c), the coordinates
\* collate_tiles parses from the name split_image gave the tile are (r, c),
\* the block the tile was cropped from.
C10_ParsedCoordinatesAreTheTiles ==
    SplitDone =>
        \A i \in 1..Len(ret[1]) :
            LET m   == pattern_search(basename(ret[1][i].path))
                box == ret[1][i].img.box
            IN  /\ m # NoMatch
                /\ (int(m[1]) - 1) * TileEdge = box[2]
                /\ (int(m[2]) - 1) * TileEdge = box[1]

ResizeDone == pc = "resize_done"

\* C6: for every original size (W, H) >= (1, 1), the target W' and H' are
\* positive multiples of 1024 with W' >= W and H' >= H, also when the
\* aspect-ratio correction recomputes W' from H'.
C6_TargetCoversOriginal ==
    ResizeDone =>
        /\ resized.w % TileEdge = 0 /\ resized.h % TileEdge = 0
        /\ resized.w >= TileEdge /\ resized.h >= TileEdge
        /\ resized.w >= source.w /\ resized.h >= source.h

\* a resize in which the correction recomputed the width
C6_Witness ==
    /\ ResizeDone
    /\ resized.adjusted
    /\ resized.w > ceil_div(source.w, TileEdge) * TileEdge

\* C7: the final target size has an aspect ratio within 0.01 of the
\* original: |W'/H' - W/H| <= 0.01.
C7_AspectWithinTolerance ==
    ResizeDone =>
        Abs((resized.w \div TileEdge) * source.h - source.w * (resized.h \div TileEdge)) * 100
            <= (resized.h \div TileEdge) * source.h

\* C8: the target is the smallest multiples of 1024 >= the original size:
\* W' = ceil(W/1024)*1024 and H' = ceil(H/1024)*1024.
C8_SmallestMultiples ==
    ResizeDone =>
        /\ resized.w = ((source.w + TileEdge - 1) \div TileEdge) * TileEdge
        /\ resized.h = ((source.h + TileEdge - 1) \div TileEdge) * TileEdge

====
